---- MODULE Spec2Model ----
(***************************************************************************)
(* Model of the TrackTime Stopwatch (node build): a registry of timers,    *)
(* each with a base time-point and a history array, and the operations     *)
(* start, stop, remove, measure, history and historyLabel.                 *)
(*                                                                         *)
(* JavaScript strings are sequences of one-character strings, so that      *)
(* trim(), toLowerCase(), concatenation and number formatting are          *)
(* computed.  Arrays are heap objects addressed by an id, so that the      *)
(* reference returned by history() is the array the timer holds.           *)
(***************************************************************************)
EXTENDS Integers, Sequences, FiniteSets, TLC

NS_PER_SECOND == 1000000000
NS_PER_MILLISECOND == 1000000

\* const USE_BIGINT = process.hrtime.bigint !== undefined: every Node release
\* that runs this module (private class fields) has process.hrtime.bigint.
USE_BIGINT == TRUE

\* Most history records alive at once, over all arrays.
MaxRecords == 2

----------------------------------------------------------------------------
(* JavaScript values *)

\* null (also what an omitted argument defaults to); not a string.
Null == <<"null">>
\* The empty string ''.
Empty == <<>>
\* The private Symbol('default') that keys the default timer.
DefaultKey == <<"Symbol(default)">>

\* JavaScript truthiness of a string-or-null argument.
Truthy(v) == v /= Null /\ v /= Empty

\* name || this.#default
Key(name) == IF Truthy(name) THEN name ELSE DefaultKey

SystemDefaultTimer == <<"s","y","s","t","e","m","_","d","e","f","a","u","l","t">>
SystemDefault == <<"S","y","s","t","e","m"," ","D","e","f","a","u","l","t">>
MeasurementWord == <<" ","m","e","a","s","u","r","e","m","e","n","t"," ">>
StopLabel == <<"s","t","o","p">>
UnknownTrackTime == <<"U","n","k","n","o","w","n"," ","T","r","a","c","k","T","i","m","e">>

DigitChars == <<"0","1","2","3","4","5","6","7","8","9">>

\* Number -> decimal string, as a template literal formats an integer.
RECURSIVE NatChars(_)
NatChars(n) == IF n < 10 THEN <<DigitChars[n + 1]>>
               ELSE NatChars(n \div 10) \o <<DigitChars[(n % 10) + 1]>>

ToChars(n) == IF n < 0 THEN <<"-">> \o NatChars(-n) ELSE NatChars(n)

IsSpace(c) == c = " "

\* String.prototype.trim
RECURSIVE TrimLeft(_)
TrimLeft(s) == IF s /= <<>> /\ IsSpace(Head(s)) THEN TrimLeft(Tail(s)) ELSE s

RECURSIVE TrimRight(_)
TrimRight(s) == IF s /= <<>> /\ IsSpace(s[Len(s)])
                THEN TrimRight(SubSeq(s, 1, Len(s) - 1)) ELSE s

Trim(s) == TrimRight(TrimLeft(s))

UpperChars == <<"A","B","C","D","E","F","G","H","I","J","K","L","M",
                "N","O","P","Q","R","S","T","U","V","W","X","Y","Z">>
LowerChars == <<"a","b","c","d","e","f","g","h","i","j","k","l","m",
                "n","o","p","q","r","s","t","u","v","w","x","y","z">>

LowerChar(c) == IF \E i \in 1..26 : UpperChars[i] = c
                THEN LowerChars[CHOOSE i \in 1..26 : UpperChars[i] = c]
                ELSE c

\* String.prototype.toLowerCase
ToLowerCase(s) == [i \in 1..Len(s) |-> LowerChar(s[i])]

\* JavaScript % : the remainder takes the sign of the dividend.
JsRem(a, b) == IF a >= 0 THEN a % b ELSE -((-a) % b)

----------------------------------------------------------------------------
(* The clock source and the duration arithmetic *)

\* A time-point of the clock source: process.hrtime.bigint() is a count of
\* nanoseconds, process.hrtime() the pair [seconds, nanoseconds].
TimePoint(ns) == IF USE_BIGINT THEN ns ELSE <<ns \div NS_PER_SECOND, ns % NS_PER_SECOND>>

\* The nanosecond count a time-point stands for.
Ns(tp) == IF USE_BIGINT THEN tp ELSE (tp[1] * NS_PER_SECOND) + tp[2]

\* #hrtime() with no argument, read when the clock shows `now`.
HrtimeNow(now) == TimePoint(now)

\* #hrtime(start) that forgets to subtract the start.
HrtimeSince_NoSubtract(start, now) ==
  IF USE_BIGINT THEN now
  ELSE <<now \div NS_PER_SECOND, now % NS_PER_SECOND>>

\* #hrtime(start), read when the clock shows `now`: the time since `start`.
\* A BigInt start of 0n is falsy, so nothing is subtracted.
HrtimeSince(start, now) ==
  IF USE_BIGINT
  THEN IF start /= 0 THEN now - start ELSE now
  ELSE LET d == now - Ns(start)
       IN  <<d \div NS_PER_SECOND, d % NS_PER_SECOND>>

\* const hrtime = Array.isArray(timer.hrtime) ? timer.hrtime : [floor, round]
HrtimePair(delta) ==
  IF USE_BIGINT
  THEN <<delta \div NS_PER_SECOND, JsRem(delta, NS_PER_SECOND)>>
  ELSE delta

\* parse(int) that takes the milliseconds of the whole count, not of the
\* remainder after the seconds.
parse_MsOfWhole(int) ==
  LET seconds == int \div NS_PER_SECOND
      milliseconds == int \div NS_PER_MILLISECOND
      nanoseconds == int - (seconds * NS_PER_SECOND) - (milliseconds * NS_PER_MILLISECOND)
  IN  [seconds |-> seconds, milliseconds |-> milliseconds, nanoseconds |-> nanoseconds]

\* parse(int)
parse(int) ==
  LET seconds == int \div NS_PER_SECOND
      milliseconds == (int - (seconds * NS_PER_SECOND)) \div NS_PER_MILLISECOND
      nanoseconds == int - (seconds * NS_PER_SECOND) - (milliseconds * NS_PER_MILLISECOND)
  IN  [seconds |-> seconds, milliseconds |-> milliseconds, nanoseconds |-> nanoseconds]

\* The display template: each zero component is replaced by ' ' (seconds,
\* milliseconds) or '' (nanoseconds), then the string is trimmed.
display(s, ms, ns) ==
  Trim((IF s /= 0 THEN ToChars(s) \o <<"s", " ">> ELSE <<" ">>)
       \o (IF ms /= 0 THEN ToChars(ms) \o <<"m", "s", " ">> ELSE <<" ">>)
       \o (IF ns /= 0 THEN ToChars(ns) \o <<"n", "s">> ELSE <<>>))

\* The label measure() uses: the caller's, or the generated one.
MeasureLabel(label, name, len) ==
  IF Truthy(label) THEN label
  ELSE (IF name = Null THEN SystemDefault ELSE name)
       \o MeasurementWord \o ToChars(len + 1)

\* elapsed = (seconds * NS_PER_SECOND) + hrtime[1]
MeasureElapsed(pair) == (pair[1] * NS_PER_SECOND) + pair[2]

\* A total that does not carry the previous total over.
MeasureTotal_ElapsedOnly(hist, elapsed) == elapsed

\* total = history empty ? elapsed : last record's total + elapsed
MeasureTotal(hist, elapsed) ==
  IF Len(hist) = 0 THEN elapsed ELSE hist[Len(hist)].total + elapsed

\* The record with the milliseconds taken as a scaled fraction of a second,
\* (hrtime[1] / 1e9) * 100000, as an older measure() computed them.
HistoryRecord_ScaledMs(label, name, pair, hist, ts) ==
  LET elapsed == MeasureElapsed(pair)
  IN  [timer |-> IF Truthy(name) THEN name ELSE SystemDefaultTimer,
       label |-> label,
       elapsed |-> elapsed,
       total |-> MeasureTotal(hist, elapsed),
       seconds |-> pair[1],
       milliseconds |-> pair[2] \div 10000,
       nanoseconds |-> JsRem(pair[2], NS_PER_MILLISECOND),
       timestamp |-> ts]

\* The object pushed on timer.history.
HistoryRecord(label, name, pair, hist, ts) ==
  LET elapsed == MeasureElapsed(pair)
  IN  [timer |-> IF Truthy(name) THEN name ELSE SystemDefaultTimer,
       label |-> label,
       elapsed |-> elapsed,
       total |-> MeasureTotal(hist, elapsed),
       seconds |-> pair[1],
       milliseconds |-> pair[2] \div NS_PER_MILLISECOND,
       nanoseconds |-> JsRem(pair[2], NS_PER_MILLISECOND),
       timestamp |-> ts]

\* The returned object with the elapsed time in the place of the total.
Duration_TotalIsElapsed(rec, pair) ==
  [timer |-> rec.timer, label |-> rec.label,
   seconds |-> rec.seconds, milliseconds |-> rec.milliseconds,
   nanoseconds |-> rec.nanoseconds,
   elapsed |-> rec.elapsed, total |-> rec.elapsed,
   display |-> display(pair[1], rec.milliseconds, rec.nanoseconds),
   timestamp |-> rec.timestamp]

\* The object measure() returns: the same values plus the display string.
Duration(rec, pair) ==
  [timer |-> rec.timer, label |-> rec.label,
   seconds |-> rec.seconds, milliseconds |-> rec.milliseconds,
   nanoseconds |-> rec.nanoseconds,
   elapsed |-> rec.elapsed, total |-> rec.total,
   display |-> display(pair[1], rec.milliseconds, rec.nanoseconds),
   timestamp |-> rec.timestamp]

\* No duration (the value of the result slots when a call returned none).
NoDuration ==
  [timer |-> <<>>, label |-> <<>>, seconds |-> 0, milliseconds |-> 0,
   nanoseconds |-> 0, elapsed |-> 0, total |-> 0, display |-> <<>>,
   timestamp |-> 0]

----------------------------------------------------------------------------
(* Bounded inputs *)

\* The first reading of the clock source (an arbitrary positive count).
Epoch == 7

\* The readings the clock source can return, as offsets from the first one.
ClockOffsets == {0, 1050000000, 1650000001}
ClockPoints == {Epoch + o : o \in ClockOffsets}

\* The name arguments of the calls: omitted/null, 't'.
NameArgs == {Null, <<"t">>}

\* The label arguments of the calls: omitted/null, 'a'.
LabelArgs == {Null, <<"a">>}

\* The constructor's name argument: omitted/null or 'D'.
CtorArgs == {Null, <<"D">>}

\* Keys the #timers map can hold.
Keys == {DefaultKey} \cup {n \in NameArgs : Truthy(n)}

\* Array objects: one per timer plus one the caller may still hold.
ArrIds == 1..(Cardinality(Keys) + 1)

\* No array reference.
NoRef == 0

----------------------------------------------------------------------------
(* State *)

VARIABLES
  swName,     \* #name
  clock,      \* the clock source's current reading, in nanoseconds
  wall,       \* the wall clock new Date() reads, in milliseconds
  timers,     \* #timers: key -> [hrtime, history (an array id)]
  heap,       \* the contents of the array objects
  started,    \* per timer, the clock reading of the start that created it
  held,       \* the array reference the caller kept from history()
  ret,        \* the outcome of the last call
  probe       \* the clock readings the last measure() took

vars == <<swName, clock, wall, timers, heap, started, held, ret, probe>>

\* The registry as a value, threaded through the calls a method makes.
Registry == [timers |-> timers, heap |-> heap, started |-> started]

\* this.#timers.has(key)
Has(reg, key) == key \in DOMAIN reg.timers

\* The `timers` property without the filter on the default key.
Timers_Unfiltered == DOMAIN timers

\* The `timers` property.
Timers == {k \in DOMAIN timers : k /= DefaultKey}

\* The history array of a timer.
HistoryOf(reg, key) == reg.heap[reg.timers[key].history]

\* Arrays reachable from the registry or from the caller's reference.
Reachable(tm, ref) == {tm[k].history : k \in DOMAIN tm} \cup ({ref} \ {NoRef})

\* Unreachable arrays are garbage: their contents are dropped.
Collect(reg, ref) ==
  [reg EXCEPT !.heap = [i \in ArrIds |->
      IF i \in Reachable(reg.timers, ref) THEN reg.heap[i] ELSE <<>>]]

\* One array object shared by every timer.
NewArray_Shared(tm, ref) == 1

\* `history: []` allocates a new array object.
NewArray(tm, ref) == CHOOSE i \in ArrIds \ Reachable(tm, ref) :
                       \A j \in ArrIds \ Reachable(tm, ref) : i <= j

\* this.#timers.delete(key)
MapDelete(f, key) == [k \in (DOMAIN f) \ {key} |-> f[k]]

\* this.#timers.set(key, value)
MapSet(f, key, value) == [k \in (DOMAIN f) \cup {key} |-> IF k = key THEN value ELSE f[k]]

NoProbe == [base |-> 0, read |-> 0, reset |-> 0]

Ret(op, name, status, value, measured, arr) ==
  [op |-> op, name |-> name, status |-> status,
   value |-> value, measured |-> measured, arr |-> arr]

----------------------------------------------------------------------------
(* Methods, as functions of the registry *)

\* start(name) that resets the base of an existing timer, keeping its history.
start_KeepHistory(reg, name, now, ref) ==
  LET key == Key(name)
      arr == IF Has(reg, key) THEN reg.timers[key].history
                              ELSE NewArray(reg.timers, ref)
  IN  [timers |-> MapSet(reg.timers, key,
                         [hrtime |-> HrtimeNow(now), history |-> arr]),
       heap |-> IF Has(reg, key) THEN reg.heap ELSE [reg.heap EXCEPT ![arr] = <<>>],
       started |-> MapSet(reg.started, key, now)]

\* start(name) that empties the existing history array in place
\* (history.length = 0) instead of giving the timer a new one.
start_ClearInPlace(reg, name, now, ref) ==
  LET key == Key(name)
      arr == IF Has(reg, key) THEN reg.timers[key].history
                              ELSE NewArray(reg.timers, ref)
  IN  [timers |-> MapSet(reg.timers, key,
                         [hrtime |-> HrtimeNow(now), history |-> arr]),
       heap |-> [reg.heap EXCEPT ![arr] = <<>>],
       started |-> MapSet(reg.started, key, now)]

\* start(name), the clock reading `now`.
start(reg, name, now, ref) ==
  LET key == Key(name)
      rest == MapDelete(reg.timers, key)
      arr == NewArray(rest, ref)
  IN  [timers |-> MapSet(reg.timers, key,
                         [hrtime |-> HrtimeNow(now), history |-> arr]),
       heap |-> [reg.heap EXCEPT ![arr] = <<>>],
       started |-> MapSet(reg.started, key, now)]

\* remove(name) that never deletes a named timer.
remove_NoDelete(reg, name, now, ref) ==
  IF name = Null THEN start(reg, DefaultKey, now, ref) ELSE reg

\* remove() that deletes the default timer instead of restarting it.
remove_DropDefault(reg, name, now, ref) ==
  LET key == IF name = Null THEN DefaultKey ELSE name
  IN  IF Has(reg, key)
      THEN [reg EXCEPT !.timers = MapDelete(reg.timers, key),
                       !.started = MapDelete(reg.started, key)]
      ELSE reg

\* remove() that resets the default timer's base but keeps its history.
remove_KeepDefaultHistory(reg, name, now, ref) ==
  IF name = Null
  THEN [reg EXCEPT !.timers[DefaultKey].hrtime = HrtimeNow(now),
                   !.started[DefaultKey] = now]
  ELSE IF Has(reg, name)
       THEN [reg EXCEPT !.timers = MapDelete(reg.timers, name),
                        !.started = MapDelete(reg.started, name)]
       ELSE reg

\* remove(name) that restarts the default timer whatever the name.
remove_AlwaysRestartsDefault(reg, name, now, ref) ==
  LET r == IF name /= Null /\ Has(reg, name)
           THEN [reg EXCEPT !.timers = MapDelete(reg.timers, name),
                            !.started = MapDelete(reg.started, name)]
           ELSE reg
  IN  start(r, DefaultKey, now, ref)

\* remove(name)
remove(reg, name, now, ref) ==
  IF name = Null
  THEN start(reg, DefaultKey, now, ref)
  ELSE IF Has(reg, name)
       THEN [reg EXCEPT !.timers = MapDelete(reg.timers, name),
                        !.started = MapDelete(reg.started, name)]
       ELSE reg

\* The base time-point measure() leaves in the timer: a fresh reading, taken
\* when the clock shows `reset`, after the delta was read at `read`.
MeasureBase(read, reset) == HrtimeNow(reset)

\* measure() that starts a missing timer before returning null.
MeasureMissing_Create(reg, name, now) ==
  [reg |-> start(reg, name, now, NoRef), status |-> "null", value |-> NoDuration]

\* What measure() does when #timers.get() found nothing: return null.
MeasureMissing(reg, name, now) ==
  [reg |-> reg, status |-> "null", value |-> NoDuration]

\* measure(label, name): the delta is read at `read`, the base is reset at
\* `reset`, new Date() gives `ts`.  Returns the registry and the result.
measure(reg, label, name, read, reset, ts) ==
  LET key == Key(name)
  IN  IF ~Has(reg, key)
      THEN MeasureMissing(reg, name, read)
      ELSE LET timer == reg.timers[key]
               hist == reg.heap[timer.history]
               lbl == MeasureLabel(label, name, Len(hist))
               delta == HrtimeSince(timer.hrtime, read)
               pair == HrtimePair(delta)
               rec == HistoryRecord(lbl, name, pair, hist, ts)
           IN  [reg |-> [reg EXCEPT
                           !.timers[key].hrtime = MeasureBase(read, reset),
                           !.heap[timer.history] = Append(hist, rec)],
                status |-> "ok",
                value |-> Duration(rec, pair)]

\* stop() that rewrites the decomposition but leaves elapsed as measured.
StopRewrite_KeepElapsed(result) ==
  LET total == parse(result.total)
  IN  [result EXCEPT !.seconds = total.seconds,
                     !.milliseconds = total.milliseconds,
                     !.nanoseconds = total.nanoseconds]

\* stop() that returns measure()'s record as it is.
StopRewrite_Identity(result) == result

\* The fields stop() overwrites on the record measure() returned.
StopRewrite(result) ==
  LET total == parse(result.total)
  IN  [result EXCEPT !.seconds = total.seconds,
                     !.milliseconds = total.milliseconds,
                     !.nanoseconds = total.nanoseconds,
                     !.elapsed = result.total]

\* What stop() does when measure() returned null: result.total raises a
\* TypeError, before anything is removed.
StopMissing(reg) ==
  [reg |-> reg, status |-> "TypeError", value |-> NoDuration, measured |-> NoDuration]

\* stop(name) that rewrites the record in the history as well, as it would
\* if measure() returned the object it pushed.
stop_RewritesStored(reg, name, read, reset, ts, ref) ==
  LET m == measure(reg, StopLabel, name, read, reset, ts)
  IN  IF m.status = "null"
      THEN StopMissing(m.reg)
      ELSE LET arr == m.reg.timers[Key(name)].history
               n == Len(m.reg.heap[arr])
               rw == StopRewrite(m.value)
               stored == [m.reg EXCEPT
                            !.heap[arr][n].seconds = rw.seconds,
                            !.heap[arr][n].milliseconds = rw.milliseconds,
                            !.heap[arr][n].nanoseconds = rw.nanoseconds,
                            !.heap[arr][n].elapsed = rw.elapsed]
           IN  [reg |-> remove(stored, name, reset, ref), status |-> "ok",
                value |-> rw, measured |-> m.value]

\* stop(name)
stop(reg, name, read, reset, ts, ref) ==
  LET m == measure(reg, StopLabel, name, read, reset, ts)
  IN  IF m.status = "null"
      THEN StopMissing(m.reg)
      ELSE [reg |-> remove(m.reg, name, reset, ref), status |-> "ok",
            value |-> StopRewrite(m.value), measured |-> m.value]

\* What history() does when #timers.get() found nothing: the result is
\* undefined, undefined === null is false, and undefined.history raises a
\* TypeError.
HistoryMissing == [status |-> "TypeError", arr |-> NoRef]

\* history(name): the timer's own array object.
history(reg, name) ==
  LET key == Key(name)
  IN  IF ~Has(reg, key)
      THEN HistoryMissing
      ELSE [status |-> "ok", arr |-> reg.timers[key].history]

\* A comparison of the labels as written.
LabelMatches_Exact(item, label) == item.label = label

\* item.label.trim().toLowerCase() === label.trim().toLowerCase()
LabelMatches(item, label) == ToLowerCase(Trim(item.label)) = ToLowerCase(Trim(label))

\* historyLabel(label, name)
historyLabel(reg, label, name) ==
  IF label = Null
  THEN [status |-> "null", value |-> NoDuration]
  ELSE IF ~Has(reg, Key(name))
       THEN [status |-> "null", value |-> NoDuration]
       ELSE LET result == SelectSeq(HistoryOf(reg, Key(name)),
                                    LAMBDA item : LabelMatches(item, label))
            IN  IF Len(result) = 0
                THEN [status |-> "null", value |-> NoDuration]
                ELSE [status |-> "ok", value |-> result[1]]

----------------------------------------------------------------------------
(* The state machine *)

\* The next reading of the clock source after `c`, if any.
LaterPoints(c) == {p \in ClockPoints : p > c}
NextPoint(c) == CHOOSE p \in LaterPoints(c) : \A q \in LaterPoints(c) : p <= q

\* The readings a second clock read inside one call can return.
SecondRead(c) == {c} \cup (IF LaterPoints(c) = {} THEN {} ELSE {NextPoint(c)})

\* The wall clock follows the clock source, at millisecond resolution.
WallAt(c) == (c - Epoch) \div NS_PER_MILLISECOND

RECURSIVE SumLen(_, _)
SumLen(h, ids) ==
  IF ids = {} THEN 0
  ELSE LET i == CHOOSE j \in ids : TRUE
       IN  Len(h[i]) + SumLen(h, ids \ {i})

\* The number of history records alive.
Records == SumLen(heap, ArrIds)

\* A call that would add a record is driven only while there is room.
Room(key) == Has(Registry, key) => Records < MaxRecords

SetRegistry(reg) ==
  /\ timers' = reg.timers
  /\ heap' = reg.heap
  /\ started' = reg.started

\* new Stopwatch(name)
Init ==
  /\ \E name \in CtorArgs : swName = IF Truthy(name) THEN name ELSE UnknownTrackTime
  /\ clock = Epoch
  /\ wall = WallAt(Epoch)
  /\ timers = [k \in {DefaultKey} |-> [hrtime |-> HrtimeNow(Epoch), history |-> 1]]
  /\ heap = [i \in ArrIds |-> <<>>]
  /\ started = [k \in {DefaultKey} |-> Epoch]
  /\ held = NoRef
  /\ ret = Ret("new", Null, "void", NoDuration, NoDuration, NoRef)
  /\ probe = NoProbe

\* Time passes between two calls.
Tick ==
  /\ \E p \in LaterPoints(clock) : clock' = p /\ wall' = WallAt(p)
  /\ UNCHANGED <<swName, timers, heap, started, held, ret, probe>>

Start(name) ==
  /\ SetRegistry(Collect(start(Registry, name, clock, held), held))
  /\ ret' = Ret("start", name, "void", NoDuration, NoDuration, NoRef)
  /\ probe' = NoProbe
  /\ UNCHANGED <<swName, clock, wall, held>>

Remove(name) ==
  /\ SetRegistry(Collect(remove(Registry, name, clock, held), held))
  /\ ret' = Ret("remove", name, "void", NoDuration, NoDuration, NoRef)
  /\ probe' = NoProbe
  /\ UNCHANGED <<swName, clock, wall, held>>

\* The clock readings of a measure(): the base it found, the reading the
\* delta was taken at, the reading the base was reset to.
Probe(key, read, reset) ==
  [base |-> Ns(timers[key].hrtime), read |-> read, reset |-> reset]

Measure(label, name) ==
  /\ Room(Key(name))
  /\ \E reset \in SecondRead(clock) :
       LET m == measure(Registry, label, name, clock, reset, wall)
       IN  /\ SetRegistry(Collect(m.reg, held))
           /\ ret' = Ret("measure", name, m.status, m.value, m.value, NoRef)
           /\ IF m.status = "ok"
              THEN /\ probe' = Probe(Key(name), clock, reset)
                   /\ clock' = reset
                   /\ wall' = WallAt(reset)
              ELSE /\ reset = clock
                   /\ probe' = NoProbe
                   /\ UNCHANGED <<clock, wall>>
  /\ UNCHANGED <<swName, held>>

Stop(name) ==
  /\ Room(Key(name))
  /\ \E reset \in SecondRead(clock) :
       LET s == stop(Registry, name, clock, reset, wall, held)
       IN  /\ SetRegistry(Collect(s.reg, held))
           /\ ret' = Ret("stop", name, s.status, s.value, s.measured, NoRef)
           /\ IF s.status = "ok"
              THEN /\ probe' = Probe(Key(name), clock, reset)
                   /\ clock' = reset
                   /\ wall' = WallAt(reset)
              ELSE /\ reset = clock
                   /\ probe' = NoProbe
                   /\ UNCHANGED <<clock, wall>>
  /\ UNCHANGED <<swName, held>>

\* history(name) that starts the timer it does not find.
History_Creates(name) ==
  LET reg == IF Has(Registry, Key(name)) THEN Registry
             ELSE start(Registry, name, clock, held)
      h == history(reg, name)
  IN  /\ SetRegistry(Collect(reg, held))
      /\ ret' = Ret("history", name, h.status, NoDuration, NoDuration, h.arr)
      /\ probe' = NoProbe
      /\ UNCHANGED <<swName, clock, wall, held>>

\* stopwatch.history(name), the result read and dropped.
History(name) ==
  LET h == history(Registry, name)
  IN  /\ ret' = Ret("history", name, h.status, NoDuration, NoDuration, h.arr)
      /\ probe' = NoProbe
      /\ UNCHANGED <<swName, clock, wall, timers, heap, started, held>>

HistoryLabel(label, name) ==
  LET h == historyLabel(Registry, label, name)
  IN  /\ ret' = Ret("historyLabel", name, h.status, h.value, NoDuration, NoRef)
      /\ probe' = NoProbe
      /\ UNCHANGED <<swName, clock, wall, timers, heap, started, held>>

Next ==
  \/ Tick
  \/ \E name \in NameArgs : Start(name)
  \/ \E name \in NameArgs : Remove(name)
  \/ \E label \in LabelArgs, name \in NameArgs : Measure(label, name)
  \/ \E name \in NameArgs : Stop(name)
  \/ \E name \in NameArgs : History(name)
  \/ \E label \in LabelArgs, name \in NameArgs : HistoryLabel(label, name)

Spec == Init /\ [][Next]_vars

----------------------------------------------------------------------------
(* A caller that keeps the array history() returned *)

\* A record of the caller's own making.
CallerRecord ==
  [timer |-> <<"x">>, label |-> <<"a">>, elapsed |-> 5, total |-> 5,
   seconds |-> 0, milliseconds |-> 0, nanoseconds |-> 5, timestamp |-> 0]

\* const h = stopwatch.history(name): the caller keeps what was returned.
HistoryKeep(name) ==
  LET h == history(Registry, name)
  IN  /\ held' = IF h.status = "ok" THEN h.arr ELSE held
      /\ SetRegistry(Collect(Registry, held'))
      /\ ret' = Ret("history", name, h.status, NoDuration, NoDuration, h.arr)
      /\ probe' = NoProbe
      /\ UNCHANGED <<swName, clock, wall>>

\* h.push(record)
CallerPush ==
  /\ held /= NoRef
  /\ Records < MaxRecords
  /\ heap' = [heap EXCEPT ![held] = Append(@, CallerRecord)]
  /\ UNCHANGED <<swName, clock, wall, timers, started, held, ret, probe>>

\* h.pop()
CallerPop ==
  /\ held /= NoRef
  /\ heap[held] /= <<>>
  /\ heap' = [heap EXCEPT ![held] = SubSeq(@, 1, Len(@) - 1)]
  /\ UNCHANGED <<swName, clock, wall, timers, started, held, ret, probe>>

\* h[i] = record
CallerSet(i) ==
  /\ held /= NoRef
  /\ i \in 1..Len(heap[held])
  /\ heap[held][i] /= CallerRecord
  /\ heap' = [heap EXCEPT ![held][i] = CallerRecord]
  /\ UNCHANGED <<swName, clock, wall, timers, started, held, ret, probe>>

\* The caller of this specification works on the default timer.
HeldNames == {Null}

NextHeld ==
  \/ Tick
  \/ \E name \in HeldNames : Start(name)
  \/ \E name \in HeldNames : Remove(name)
  \/ \E label \in LabelArgs, name \in HeldNames : Measure(label, name)
  \/ \E name \in HeldNames : Stop(name)
  \/ \E name \in HeldNames : HistoryKeep(name)
  \/ \E label \in LabelArgs, name \in HeldNames : HistoryLabel(label, name)
  \/ CallerPush
  \/ CallerPop
  \/ \E i \in 1..MaxRecords : CallerSet(i)

SpecHeld == Init /\ [][NextHeld]_vars

----------------------------------------------------------------------------
(* Properties *)

RECURSIVE SumElapsed(_)
SumElapsed(hist) == IF hist = <<>> THEN 0 ELSE Head(hist).elapsed + SumElapsed(Tail(hist))

\* Some call on the timer keyed k that reads a fresh base time-point.
ResetsBase(k) ==
  \E name \in NameArgs :
    /\ Key(name) = k
    /\ \/ Start(name)
       \/ Remove(name)
       \/ Stop(name)
       \/ \E label \in LabelArgs : Measure(label, name)

\* The measured intervals of a timer lie side by side between its start and
\* its current base time-point.
NonOverlapping ==
  \A k \in DOMAIN timers :
    SumElapsed(HistoryOf(Registry, k)) <= Ns(timers[k].hrtime) - started[k]

\* C1: a successful measure(label, name) reports as elapsed the clock delta
\* between the timer's stored base time-point and the clock read of this
\* call, appends that record, and resets the base to a fresh reading; a base
\* only changes in a start or a measure of its timer, so the intervals of
\* consecutive measures do not overlap.
C1_ElapsedSinceBase ==
  [][/\ \A label \in LabelArgs, name \in NameArgs :
          (ret'.op = "measure" /\ ret'.status = "ok" /\ ret'.name = name
             /\ Measure(label, name)) =>
            LET key == Key(name)
                h == HistoryOf(Registry', key)
            IN  /\ ret'.value.elapsed = clock - Ns(timers[key].hrtime)
                /\ h[Len(h)].elapsed = ret'.value.elapsed
                /\ Ns(timers'[key].hrtime) = clock'
      /\ \A k \in DOMAIN timers' :
          (k \notin DOMAIN timers \/ timers'[k].hrtime /= timers[k].hrtime) =>
            (ResetsBase(k) /\ Ns(timers'[k].hrtime) = clock')
      /\ NonOverlapping']_vars

\* A second measure on one timer reported less than the time since start.
C1_Witness ==
  /\ ret.op = "measure" /\ ret.status = "ok"
  /\ Len(HistoryOf(Registry, Key(ret.name))) = 2
  /\ ret.value.elapsed > 0
  /\ ret.value.elapsed < clock - started[Key(ret.name)]

\* C2: in every history, each record's total is the previous record's total
\* (0 before the first) plus its own elapsed.
C2_TotalAccumulates ==
  \A k \in DOMAIN timers :
    LET h == HistoryOf(Registry, k)
    IN  \A i \in 1..Len(h) :
          h[i].total = (IF i = 1 THEN 0 ELSE h[i - 1].total) + h[i].elapsed

\* A history of two records, both with a positive elapsed.
C2_Witness ==
  \E k \in DOMAIN timers :
    LET h == HistoryOf(Registry, k)
    IN  Len(h) = 2 /\ h[1].elapsed > 0 /\ h[2].elapsed > 0

\* C3 (as claimed): the total of the record a measure produces is the clock
\* time between the timer's start and the clock read of that measure.
C3_TotalSinceStart ==
  (ret.op = "measure" /\ ret.status = "ok") =>
    ret.value.total = probe.read - started[Key(ret.name)]

\* C4 (as claimed): stop(name) on a timer that does not exist returns null
\* and leaves the registry unchanged.
C4_StopMissingReturnsNull ==
  [][\A name \in NameArgs :
       (ret'.op = "stop" /\ ret'.name = name
          /\ Stop(name) /\ ~Has(Registry, Key(name))) =>
         (ret'.status = "null" /\ UNCHANGED <<timers, heap>>)]_vars

\* C5 (as claimed): stop(name) on an existing timer returns the record
\* measure('stop', name) would return: elapsed the time since the previous
\* measurement, seconds/milliseconds/nanoseconds its decomposition.
C5_StopIsMeasure ==
  [][\A name \in NameArgs :
       (ret'.op = "stop" /\ ret'.name = name
          /\ Stop(name) /\ Has(Registry, Key(name))) =>
         LET m == measure(Registry, StopLabel, name, clock, clock', wall).value
         IN  /\ ret'.value.label = StopLabel
             /\ ret'.value.elapsed = clock - Ns(timers[Key(name)].hrtime)
             /\ ret'.value.elapsed = m.elapsed
             /\ ret'.value.seconds = m.seconds
             /\ ret'.value.milliseconds = m.milliseconds
             /\ ret'.value.nanoseconds = m.nanoseconds
             /\ ret'.value.total = m.total]_vars

\* C5 (amended): stop(name) on an existing timer returns the record
\* measure('stop', name) would return, except that elapsed is that record's
\* total and seconds/milliseconds/nanoseconds are the decomposition of the
\* total; timer, label, total, display and timestamp are measure's.
C5_StopIsMeasureWithTotals ==
  [][\A name \in NameArgs :
       (ret'.op = "stop" /\ ret'.name = name
          /\ Stop(name) /\ Has(Registry, Key(name))) =>
         LET m == measure(Registry, StopLabel, name, clock, clock', wall).value
             h == HistoryOf(Registry, Key(name))
             interval == clock - Ns(timers[Key(name)].hrtime)
         IN  /\ ret'.value.timer = m.timer
             /\ ret'.value.label = StopLabel
             /\ ret'.value.total = m.total
             /\ ret'.value.display = m.display
             /\ ret'.value.timestamp = m.timestamp
             /\ m.elapsed = interval
             /\ ret'.value.total = (IF h = <<>> THEN 0 ELSE h[Len(h)].total) + interval
             /\ ret'.value.elapsed = ret'.value.total
             /\ (ret'.value.seconds * NS_PER_SECOND)
                  + (ret'.value.milliseconds * NS_PER_MILLISECOND)
                  + ret'.value.nanoseconds = ret'.value.total
             /\ ret'.value.milliseconds \in 0..999
             /\ ret'.value.nanoseconds \in 0..(NS_PER_MILLISECOND - 1)
             /\ (h = <<>> => ret'.value = m)]_vars

\* stop() after an earlier measurement: its elapsed is more than the last
\* interval.
C5_Witness ==
  /\ ret.op = "stop" /\ ret.status = "ok"
  /\ ret.measured.elapsed > 0
  /\ ret.value.elapsed > ret.measured.elapsed

C7_StopDiscards ==
  [][\A name \in NameArgs :
       /\ (ret'.op = "stop" /\ ret'.name = name
             /\ Stop(name) /\ Has(Registry, Key(name))) =>
            IF name = Null
            THEN /\ Has(Registry', DefaultKey)
                 /\ HistoryOf(Registry', DefaultKey) = <<>>
                 /\ Ns(timers'[DefaultKey].hrtime) = clock'
            ELSE /\ name \notin DOMAIN timers'
                 /\ name \notin Timers'
                 /\ \A label \in LabelArgs :
                      measure(Registry', label, name, clock', clock', wall').status = "null"
       /\ (Truthy(name) /\ ~Has(Registry, name) /\ Has(Registry', name)) => Start(name)]_vars

\* stop('t') has returned a record and 't' is no longer a timer.
C7_Witness ==
  /\ ret.op = "stop" /\ ret.status = "ok" /\ Truthy(ret.name)
  /\ ret.name \notin Timers

\* C8: measure(label, name) with a name that has no timer returns null and
\* changes no timer, no history and no base time-point.
C8_MeasureMissing ==
  [][\A label \in LabelArgs, name \in NameArgs :
       (ret'.op = "measure" /\ ret'.name = name
          /\ Measure(label, name) /\ ~Has(Registry, Key(name))) =>
         /\ ret'.status = "null"
         /\ UNCHANGED <<timers, heap, started, clock>>]_vars

\* measure on a missing timer has returned null.
C8_Witness ==
  /\ ret.op = "measure" /\ ret.status = "null"
  /\ ~Has(Registry, Key(ret.name))

\* C9 (as claimed): history(name) for a name with no timer returns an empty
\* sequence and raises no error.
C9_HistoryMissingIsEmpty ==
  [][\A name \in NameArgs :
       (ret'.op = "history" /\ ret'.name = name
          /\ History(name) /\ ~Has(Registry, Key(name))) =>
         (ret'.status = "ok" /\ ret'.arr /= NoRef /\ heap'[ret'.arr] = <<>>)]_vars

\* A step in which the caller changes the array it got from history().
CallerMutates == CallerPush \/ CallerPop \/ \E i \in 1..MaxRecords : CallerSet(i)

\* C10 (as claimed): adding, removing or replacing elements of the sequence
\* history(name) returned changes no timer's history, so nothing a later
\* history, historyLabel or measure observes.
C10_HistoryDetached ==
  [][CallerMutates =>
       \A k \in DOMAIN timers : HistoryOf(Registry', k) = HistoryOf(Registry, k)]_vars

\* C11: the default timer exists in every reachable state, so measure() with no
\* name never returns null, whatever calls came before.
C11_DefaultAlwaysExists ==
  /\ Has(Registry, DefaultKey)
  /\ \A label \in LabelArgs :
       measure(Registry, label, Null, clock, clock, wall).status = "ok"
  /\ (ret.op = "measure" /\ ret.name = Null) => ret.status = "ok"

\* measure() has returned a record from a default timer that was restarted
\* after construction.
C11_Witness ==
  /\ ret.op = "measure" /\ ret.name = Null /\ ret.status = "ok"
  /\ started[DefaultKey] > Epoch
  /\ Timers /= {}

\* The other timers of the registry are what they were before the step.
OthersUnchanged(key) ==
  \A k \in (DOMAIN timers) \ {key} :
    /\ k \in DOMAIN timers'
    /\ timers'[k].hrtime = timers[k].hrtime
    /\ HistoryOf(Registry', k) = HistoryOf(Registry, k)

\* C12: remove() with no name leaves the registry as start() with no name
\* would: the default timer has an empty history and the current reading as
\* its base, and every named timer is unchanged.
C12_RemoveIsStart ==
  [][(ret'.op = "remove" /\ ret'.name = Null /\ Remove(Null)) =>
       /\ Registry' = Collect(start(Registry, Null, clock, held), held)
       /\ HistoryOf(Registry', DefaultKey) = <<>>
       /\ Ns(timers'[DefaultKey].hrtime) = clock
       /\ Timers' = Timers
       /\ OthersUnchanged(DefaultKey)]_vars

\* remove() has restarted the default timer at a later reading while a named
\* timer keeps its records.
C12_Witness ==
  /\ ret.op = "remove" /\ ret.name = Null
  /\ started[DefaultKey] > Epoch
  /\ HistoryOf(Registry, DefaultKey) = <<>>
  /\ \E k \in Timers : HistoryOf(Registry, k) /= <<>>

\* C13: remove(name) with a name deletes that timer if it exists and changes
\* no other timer; if it does not exist, nothing changes and no error is
\* raised.
C13_RemoveNamed ==
  [][\A name \in NameArgs \ {Null} :
       (ret'.op = "remove" /\ ret'.name = name /\ Remove(name)) =>
         /\ ret'.status = "void"
         /\ ~Has(Registry', name)
         /\ Timers' = Timers \ {name}
         /\ OthersUnchanged(name)
         /\ ~Has(Registry, name) => UNCHANGED <<timers, heap, started>>]_vars

\* remove('t') has returned, 't' is not a timer and the default timer keeps
\* its records.
C13_Witness ==
  /\ ret.op = "remove" /\ ret.name /= Null /\ ret.status = "void"
  /\ ret.name \notin Timers
  /\ HistoryOf(Registry, DefaultKey) /= <<>>

\* C14: start(name) leaves the timer for name existing, with an empty history
\* and the clock reading of the call as its base, whatever was there before;
\* starting again later gives the state a single start at the later reading
\* gives.
C14_StartResets ==
  [][\A name \in NameArgs :
       (ret'.op = "start" /\ ret'.name = name /\ Start(name)) =>
         /\ Has(Registry', Key(name))
         /\ HistoryOf(Registry', Key(name)) = <<>>
         /\ Ns(timers'[Key(name)].hrtime) = clock
         /\ \A later \in {clock} \cup LaterPoints(clock) :
              Collect(start(Registry', name, later, held), held)
                = Collect(start(Registry, name, later, held), held)]_vars

\* start('t') has returned at a later reading than the construction: 't' has
\* an empty history and that reading as its base, next to a default timer
\* with records.
C14_Witness ==
  /\ ret.op = "start" /\ Truthy(ret.name)
  /\ Has(Registry, ret.name)
  /\ HistoryOf(Registry, ret.name) = <<>>
  /\ Ns(timers[ret.name].hrtime) = clock /\ clock > Epoch
  /\ HistoryOf(Registry, DefaultKey) /= <<>>

\* C15: a step changes the base, the history (and so the totals) or the
\* existence of a timer only if it is a start, measure, stop or remove
\* addressed to that timer.
C15_Isolation ==
  [][\A k \in DOMAIN timers :
       (\/ k \notin DOMAIN timers'
        \/ timers'[k].hrtime /= timers[k].hrtime
        \/ HistoryOf(Registry', k) /= HistoryOf(Registry, k)) =>
         /\ ret'.op \in {"start", "measure", "stop", "remove"}
         /\ Key(ret'.name) = k]_vars

\* measure on 't' has returned a record while the default timer holds its own
\* records and its own base.
C15_Witness ==
  /\ ret.op = "measure" /\ Truthy(ret.name) /\ ret.status = "ok"
  /\ HistoryOf(Registry, DefaultKey) /= <<>>
  /\ HistoryOf(Registry, DefaultKey) /= HistoryOf(Registry, ret.name)
  /\ timers[DefaultKey].hrtime /= timers[ret.name].hrtime

\* C16: the timers property starts empty, gains n at start(n) with a name,
\* loses n at remove(n) and stop(n), changes at no other step, and never
\* lists the default timer.
C16_TimersAreActiveNames ==
  /\ Timers = {}
  /\ [][/\ DefaultKey \notin Timers'
        /\ Timers' =
             IF ret'.op = "start" /\ Truthy(ret'.name) /\ Start(ret'.name)
             THEN Timers \cup {ret'.name}
             ELSE IF ret'.op = "remove" /\ Remove(ret'.name)
             THEN Timers \ {ret'.name}
             ELSE IF ret'.op = "stop" /\ Stop(ret'.name)
             THEN Timers \ {ret'.name}
             ELSE Timers]_vars

\* 't' was started and is the one name the timers property lists.
C16_Witness ==
  /\ ret.op = "start" /\ ret.name = <<"t">>
  /\ Timers = {<<"t">>}

----------------------------------------------------------------------------
(* parse() called on its own *)

\* The largest whole number of seconds in an argument of parse().
MaxParseSeconds == 1

\* The sub-second parts of the arguments: the edges of the millisecond and
\* nanosecond ranges and the README's 749ms 23419ns.
ParseFractions ==
  {ms * NS_PER_MILLISECOND + ns :
     ms \in {0, 1, 146, 749, 999}, ns \in {0, 1, 23419, 999999}}

\* The arguments of parse(): non-negative integers (kept below 2^31).
ParseArgs ==
  {q[1] * NS_PER_SECOND + q[2] :
     q \in {x \in (0..MaxParseSeconds) \X ParseFractions :
              x[1] < 2 \/ (x[1] = 2 /\ x[2] < 147 * NS_PER_MILLISECOND)}}

\* parse(int): no timer is read or written.
Parse(int) ==
  /\ ret' = [op |-> "parse", name |-> Null, status |-> "ok",
             value |-> parse(int), measured |-> NoDuration, arr |-> NoRef,
             int |-> int]
  /\ probe' = NoProbe
  /\ UNCHANGED <<swName, clock, wall, timers, heap, started, held>>

NextParse ==
  \/ Tick
  \/ \E int \in ParseArgs : Parse(int)

SpecParse == Init /\ [][NextParse]_vars

\* C17: for every non-negative integer n, parse(n) returns seconds,
\* milliseconds and nanoseconds that add up to n, with 0 <= milliseconds < 1000
\* and 0 <= nanoseconds < 1e6.
C17_ParseRoundTrip ==
  ret.op = "parse" =>
    LET r == ret.value
    IN  /\ ret.int = r.seconds * NS_PER_SECOND
                       + r.milliseconds * NS_PER_MILLISECOND + r.nanoseconds
        /\ r.seconds >= 0
        /\ 0 <= r.milliseconds /\ r.milliseconds < 1000
        /\ 0 <= r.nanoseconds /\ r.nanoseconds < 1000000

\* parse(1999999999) has returned 1s 999ms 999999ns.
C17_Witness ==
  /\ ret.op = "parse"
  /\ ret.value.seconds = 1
  /\ ret.value.milliseconds = 999
  /\ ret.value.nanoseconds = 999999

\* C18: the record measure makes from a non-negative clock delta e has
\* seconds = floor(e / 1e9), milliseconds = floor((e mod 1e9) / 1e6) and
\* nanoseconds = e mod 1e6, within 0..999 and 0..999999, and the three equal
\* parse(e); the record pushed on the history carries the same three.
C18_MeasureDecomposition ==
  (ret.op \in {"measure", "stop"} /\ ret.status = "ok") =>
    LET e == probe.read - probe.base
        r == ret.measured
    IN  e >= 0 =>
          /\ r.seconds = e \div NS_PER_SECOND
          /\ r.milliseconds = (e % NS_PER_SECOND) \div NS_PER_MILLISECOND
          /\ r.nanoseconds = e % NS_PER_MILLISECOND
          /\ 0 <= r.milliseconds /\ r.milliseconds < 1000
          /\ 0 <= r.nanoseconds /\ r.nanoseconds < 1000000
          /\ [seconds |-> r.seconds, milliseconds |-> r.milliseconds,
              nanoseconds |-> r.nanoseconds] = parse(e)
          /\ ret.op = "measure" =>
               LET h == HistoryOf(Registry, Key(ret.name))
               IN  /\ Len(h) > 0
                   /\ h[Len(h)].seconds = r.seconds
                   /\ h[Len(h)].milliseconds = r.milliseconds
                   /\ h[Len(h)].nanoseconds = r.nanoseconds

\* measure has recorded a delta of 1650000001ns as 1s 650ms 1ns.
C18_Witness ==
  /\ ret.op = "measure" /\ ret.status = "ok"
  /\ probe.read - probe.base = 1650000001
  /\ ret.value.seconds = 1
  /\ ret.value.milliseconds = 650
  /\ ret.value.nanoseconds = 1

----------------------------------------------------------------------------
(* Labels written in several ways *)

\* The labels measure() is given: none, 'a', ' A'.
MeasureLabelArgs == {Null, <<"a">>, <<" ", "A">>}

\* The labels historyLabel() is asked for: none, 'a', 'A ', 'b'.
QueryLabelArgs == {Null, <<"a">>, <<"A", " ">>, <<"b">>}

NextLabels ==
  \/ Tick
  \/ Start(Null)
  \/ \E label \in MeasureLabelArgs : Measure(label, Null)
  \/ \E label \in QueryLabelArgs, name \in NameArgs : HistoryLabel(label, name)

SpecLabels == Init /\ [][NextLabels]_vars

\* The positions of the records whose label is the given one once both are
\* trimmed and lower-cased.
Hits(h, label) ==
  {i \in 1..Len(h) : ToLowerCase(Trim(h[i].label)) = ToLowerCase(Trim(label))}

\* C19: historyLabel(label, name) returns the earliest record of the timer's
\* history whose label is the given one after trimming and lower-casing, also
\* when several records match; it returns null when no label is given, when
\* the timer does not exist and when no record matches.  It changes nothing.
C19_HistoryLabelFirstMatch ==
  [][\A label \in QueryLabelArgs, name \in NameArgs :
       (ret'.op = "historyLabel" /\ ret'.name = name
          /\ HistoryLabel(label, name)) =>
         /\ UNCHANGED <<timers, heap>>
         /\ IF label = Null \/ ~Has(Registry, Key(name))
            THEN ret'.status = "null"
            ELSE LET h == HistoryOf(Registry, Key(name))
                 IN  IF Hits(h, label) = {}
                     THEN ret'.status = "null"
                     ELSE /\ ret'.status = "ok"
                          /\ \E i \in Hits(h, label) :
                               /\ \A j \in Hits(h, label) : i <= j
                               /\ ret'.value = h[i]]_vars

\* historyLabel has returned the first of two records whose labels are
\* written differently and are the same once trimmed and lower-cased.
C19_Witness ==
  /\ ret.op = "historyLabel" /\ ret.status = "ok" /\ ret.name = Null
  /\ LET h == HistoryOf(Registry, DefaultKey)
     IN  /\ Len(h) = 2
         /\ h[1].label /= h[2].label
         /\ ToLowerCase(Trim(h[1].label)) = ToLowerCase(Trim(h[2].label))
         /\ ret.value = h[1]
         /\ ret.value /= h[2]
         /\ ret.value.label = <<" ", "A">>

----------------------------------------------------------------------------
(* The README example *)

\* 'subprocess'
Subprocess == <<"s", "u", "b", "p", "r", "o", "c", "e", "s", "s">>

\* 'Task 1'
Task1 == <<"T", "a", "s", "k", " ", "1">>

\* stopwatch.measure('subprocess', 'Task 1'): the first argument is the
\* parameter `label`, the second the parameter `name`.
ReadmeMeasure == Measure(Subprocess, Task1)

\* The same call with the arguments in the order of the signature.
SignatureMeasure == Measure(Task1, Subprocess)

\* The calls of the example, in any order and at any time.
NextReadme ==
  \/ Tick
  \/ Start(Subprocess)
  \/ ReadmeMeasure
  \/ SignatureMeasure
  \/ History(Subprocess)
  \/ Stop(Subprocess)

SpecReadme == Init /\ [][NextReadme]_vars

\* C20 (as claimed): after start('subprocess'), measure('subprocess', 'Task 1')
\* returns a duration record with timer 'subprocess' and label 'Task 1' and
\* appends it to the history of timer 'subprocess'.
C20_ReadmeMeasureRecords ==
  [][(ret'.op = "measure" /\ ReadmeMeasure /\ Has(Registry, Subprocess)) =>
       /\ ret'.status = "ok"
       /\ ret'.value.timer = Subprocess
       /\ ret'.value.label = Task1
       /\ Has(Registry', Subprocess)
       /\ Len(HistoryOf(Registry', Subprocess))
            = Len(HistoryOf(Registry, Subprocess)) + 1]_vars

----------------------------------------------------------------------------
(* The getters of a returned duration *)

\* The properties of the object measure() returns (stop() returns the same
\* object): the fields and the four getters.
ResultProperties ==
  {"timer", "label", "seconds", "milliseconds", "nanoseconds", "elapsed",
   "total", "display", "timestamp",
   "display_total", "display_ms", "display_ns", "display_seconds"}

\* get display_total(): `this` is the returned object, so this.parse is one
\* of its properties or undefined, and calling undefined raises a TypeError.
\* `total` is the total measure() computed.
display_total(total) ==
  IF "parse" \in ResultProperties
  THEN LET t == parse(total)
       IN  [status |-> "ok",
            text |-> display(t.seconds, t.milliseconds, t.nanoseconds)]
  ELSE [status |-> "TypeError", text |-> <<>>]

\* The caller reads result.display_total on the duration the last measure()
\* or stop() returned.
ReadDisplayTotal ==
  /\ ret.op \in {"measure", "stop"} /\ ret.status = "ok"
  /\ LET d == display_total(ret.measured.total)
     IN  ret' = [op |-> "display_total", name |-> ret.name, status |-> d.status,
                 value |-> ret.value, measured |-> ret.measured, arr |-> NoRef,
                 text |-> d.text]
  /\ probe' = NoProbe
  /\ UNCHANGED <<swName, clock, wall, timers, heap, started, held>>

NextGetters ==
  \/ Tick
  \/ \E name \in NameArgs : Start(name)
  \/ \E label \in LabelArgs, name \in NameArgs : Measure(label, name)
  \/ \E name \in NameArgs : Stop(name)
  \/ ReadDisplayTotal

SpecGetters == Init /\ [][NextGetters]_vars

\* C21 (as claimed): reading display_total on a record returned by measure or
\* stop raises no error and yields the display string of parse(total).
C21_DisplayTotalReads ==
  [][(ret'.op = "display_total" /\ ReadDisplayTotal) =>
       /\ ret'.status = "ok"
       /\ LET t == parse(ret.value.total)
          IN  ret'.text = display(t.seconds, t.milliseconds, t.nanoseconds)]_vars

----------------------------------------------------------------------------
(* Names and labels that are given and empty *)

\* The name arguments: omitted/null and ''.
EmptyNameArgs == {Null, Empty}

\* The label arguments: omitted/null, '' and 'a'.
EmptyLabelArgs == {Null, Empty, <<"a">>}

NextEmpty ==
  \/ Tick
  \/ \E name \in EmptyNameArgs : Start(name)
  \/ \E name \in EmptyNameArgs : Remove(name)
  \/ \E label \in EmptyLabelArgs, name \in EmptyNameArgs : Measure(label, name)
  \/ \E name \in EmptyNameArgs : Stop(name)
  \/ \E name \in EmptyNameArgs : History(name)
  \/ \E label \in EmptyLabelArgs, name \in EmptyNameArgs : HistoryLabel(label, name)

SpecEmpty == Init /\ [][NextEmpty]_vars

\* C22 (as claimed): every operation given the name '' raises no error and
\* has the effect and the result of the same call with the name omitted.
C22_EmptyNameIsDefault ==
  [][/\ (ret'.op = "start" /\ ret'.name = Empty /\ Start(Empty)) =>
          Registry' = Collect(start(Registry, Null, clock, held), held)
     /\ (ret'.op = "remove" /\ ret'.name = Empty /\ Remove(Empty)) =>
          Registry' = Collect(remove(Registry, Null, clock, held), held)
     /\ \A label \in EmptyLabelArgs :
          (ret'.op = "measure" /\ ret'.name = Empty /\ Measure(label, Empty)) =>
            LET m == measure(Registry, label, Null, clock, clock', wall)
            IN  /\ ret'.status = m.status
                /\ ret'.value = m.value
                /\ Registry' = Collect(m.reg, held)
     /\ (ret'.op = "stop" /\ ret'.name = Empty /\ Stop(Empty)) =>
          LET s == stop(Registry, Null, clock, clock', wall, held)
          IN  /\ ret'.status = s.status
              /\ ret'.value = s.value
              /\ Registry' = Collect(s.reg, held)
     /\ (ret'.op = "history" /\ ret'.name = Empty /\ History(Empty)) =>
          LET h == history(Registry, Null)
          IN  ret'.status = h.status /\ ret'.arr = h.arr
     /\ \A label \in EmptyLabelArgs :
          (ret'.op = "historyLabel" /\ ret'.name = Empty
             /\ HistoryLabel(label, Empty)) =>
            LET h == historyLabel(Registry, label, Null)
            IN  ret'.status = h.status /\ ret'.value = h.value]_vars

----------------------------------------------------------------------------
(* Histories and their records *)

\* The step is a start, remove or stop addressed to the timer keyed k.
ResetOn(k) ==
  \E name \in NameArgs :
    Key(name) = k /\ (Start(name) \/ Remove(name) \/ Stop(name))

\* h2 is h1 with exactly one record added at the end.
OneAppended(h1, h2) ==
  Len(h2) = Len(h1) + 1 /\ SubSeq(h2, 1, Len(h1)) = h1

\* C23 (as claimed): between two resets of a timer its history is
\* append-only: a successful measure on the timer adds exactly one record at
\* the end, and a step that is neither that nor a start, remove or stop on
\* the timer leaves its history as it was.
C23_AppendOnly ==
  [][\A k \in DOMAIN timers :
       /\ (k \in DOMAIN timers'
             /\ HistoryOf(Registry', k) /= HistoryOf(Registry, k)) =>
            \/ ResetOn(k)
            \/ /\ OneAppended(HistoryOf(Registry, k), HistoryOf(Registry', k))
               /\ \E label \in LabelArgs, name \in NameArgs :
                    Key(name) = k /\ Measure(label, name)
       /\ \A label \in LabelArgs, name \in NameArgs :
            (ret'.op = "measure" /\ ret'.status = "ok" /\ Key(name) = k
               /\ ret'.name = name /\ Measure(label, name)) =>
              OneAppended(HistoryOf(Registry, k), HistoryOf(Registry', k))]_vars

\* h1 is the beginning of h2.
IsPrefix(h1, h2) == Len(h1) <= Len(h2) /\ SubSeq(h2, 1, Len(h1)) = h1

\* C24: no operation of the registry changes a record already stored: the
\* records of a timer that is not reset, and the records of the array a
\* caller holds, stay as they were; the record a stop stores keeps the
\* measured seconds, milliseconds, nanoseconds and elapsed, not the
\* rewritten ones of the value stop returns.
C24_RecordsImmutable ==
  [][~CallerMutates =>
       /\ (held /= NoRef /\ held' = held) => IsPrefix(heap[held], heap'[held])
       /\ \A k \in DOMAIN timers :
            k \in DOMAIN timers' =>
              (IsPrefix(HistoryOf(Registry, k), HistoryOf(Registry', k))
                 \/ ResetOn(k))
       /\ (ret'.op = "stop" /\ ret'.status = "ok" /\ held /= NoRef
             /\ held = timers[Key(ret'.name)].history /\ Stop(ret'.name)) =>
            LET rec == heap'[held][Len(heap'[held])]
            IN  /\ rec.label = StopLabel
                /\ rec.elapsed = ret'.measured.elapsed
                /\ rec.total = ret'.measured.total
                /\ rec.seconds = ret'.measured.seconds
                /\ rec.milliseconds = ret'.measured.milliseconds
                /\ rec.nanoseconds = ret'.measured.nanoseconds]_vars

\* stop() has returned a value whose elapsed was rewritten to the total while
\* the 'stop' record in the array the caller holds keeps the measured one.
C24_Witness ==
  /\ ret.op = "stop" /\ ret.status = "ok" /\ held /= NoRef
  /\ Len(heap[held]) = 2
  /\ heap[held][2].label = StopLabel
  /\ heap[held][2].elapsed = ret.measured.elapsed
  /\ heap[held][2].elapsed /= ret.value.elapsed
  /\ heap[held][1].total + heap[held][2].elapsed = ret.value.elapsed

\* C25: the record a successful measure returns agrees with the record it
\* appended as the last element of the timer's history in timer, label,
\* elapsed, total, seconds, milliseconds, nanoseconds and timestamp.
C25_ReturnedIsStored ==
  (ret.op = "measure" /\ ret.status = "ok") =>
    LET h == HistoryOf(Registry, Key(ret.name))
    IN  /\ Len(h) > 0
        /\ h[Len(h)].timer = ret.value.timer
        /\ h[Len(h)].label = ret.value.label
        /\ h[Len(h)].elapsed = ret.value.elapsed
        /\ h[Len(h)].total = ret.value.total
        /\ h[Len(h)].seconds = ret.value.seconds
        /\ h[Len(h)].milliseconds = ret.value.milliseconds
        /\ h[Len(h)].nanoseconds = ret.value.nanoseconds
        /\ h[Len(h)].timestamp = ret.value.timestamp

\* measure has returned the second record of a timer, with a total that is
\* not its elapsed and a timestamp after the construction.
C25_Witness ==
  /\ ret.op = "measure" /\ ret.status = "ok"
  /\ Len(HistoryOf(Registry, Key(ret.name))) = 2
  /\ ret.value.total /= ret.value.elapsed
  /\ ret.value.elapsed > 0
  /\ ret.value.timestamp > 0

\* C26 (as claimed): a measure with no label (null or '') labels its record
\* '<descriptor> measurement <k>', the descriptor being 'System Default' for
\* the default timer and the timer's name otherwise, and k being one more
\* than the number of records the timer's history held before the call.
C26_GeneratedLabel ==
  [][\A label \in EmptyLabelArgs, name \in EmptyNameArgs :
       (ret'.op = "measure" /\ ret'.status = "ok" /\ ret'.name = name
          /\ ~Truthy(label) /\ Measure(label, name)) =>
         ret'.value.label =
           (IF Key(name) = DefaultKey THEN SystemDefault ELSE name)
             \o MeasurementWord
             \o ToChars(Len(HistoryOf(Registry, Key(name))) + 1)]_vars

\* C27 (as claimed): in a history made by two measures after a start, the
\* second record's total is greater than the first's, for every clock that
\* never goes backwards.
C27_TotalsIncrease ==
  \A k \in DOMAIN timers :
    \A i \in 1..(Len(HistoryOf(Registry, k)) - 1) :
      HistoryOf(Registry, k)[i + 1].total > HistoryOf(Registry, k)[i].total

\* C27 (amended): the second record's total is never less than the first's,
\* and it is greater exactly when the clock advanced between the two
\* measures, that is when the second record's elapsed is positive.
C27_TotalsNeverDecrease ==
  \A k \in DOMAIN timers :
    \A i \in 1..(Len(HistoryOf(Registry, k)) - 1) :
      LET h == HistoryOf(Registry, k)
      IN  /\ h[i + 1].total >= h[i].total
          /\ h[i + 1].total > h[i].total <=> h[i + 1].elapsed > 0
          /\ h[i + 1].total = h[i].total + h[i + 1].elapsed

\* 't' was started late, measured once after the clock advanced and once
\* more at the same reading: two records with the same positive total.
C27_Witness ==
  /\ Has(Registry, <<"t">>)
  /\ LET h == HistoryOf(Registry, <<"t">>)
     IN  /\ Len(h) = 2
         /\ h[1].total > 0
         /\ h[2].total = h[1].total
         /\ h[2].elapsed = 0

----------------------------------------------------------------------------
(* A clock source that goes backwards *)

\* How far a reading can fall behind the previous one, in nanoseconds.
RegressStep == 5

\* The clock source returns a reading earlier than its last one (the
\* anomaly measure() resets the timer against, line 203).  It is driven only
\* while no record exists, which keeps the totals within 32 bits.
Regress ==
  /\ Records = 0
  /\ clock \in ClockPoints
  /\ clock - RegressStep > 0
  /\ clock' = clock - RegressStep
  /\ wall' = WallAt(clock')
  /\ UNCHANGED <<swName, timers, heap, started, held, ret, probe>>

NextRegress ==
  \/ Tick
  \/ Regress
  \/ Start(Null)
  \/ \E label \in LabelArgs : Measure(label, Null)

SpecRegress == Init /\ [][NextRegress]_vars

\* C29 (as claimed): for any clock delta d, negative ones included, the
\* record measure produces has elapsed = d and
\* elapsed = seconds*1e9 + milliseconds*1e6 + nanoseconds, and milliseconds
\* and nanoseconds are not negative when seconds is not.
C29_SignedDecomposition ==
  (ret.op = "measure" /\ ret.status = "ok") =>
    LET d == probe.read - probe.base
        r == ret.value
    IN  /\ r.elapsed = d
        /\ r.elapsed = r.seconds * NS_PER_SECOND
                         + r.milliseconds * NS_PER_MILLISECOND + r.nanoseconds
        /\ r.seconds >= 0 => (r.milliseconds >= 0 /\ r.nanoseconds >= 0)

----------------------------------------------------------------------------
(* The display string on its own *)

\* The components measure() formats: seconds, milliseconds, nanoseconds.
DisplaySeconds == {0, 1, 12}
DisplayMilliseconds == {0, 5, 999}
DisplayNanoseconds == {0, 5, 999999}

\* The display expression of measure() evaluated on the components of a
\* duration; no timer is read or written.
ShowDisplay(s, ms, ns) ==
  /\ ret' = [op |-> "display", name |-> Null, status |-> "ok",
             value |-> [NoDuration EXCEPT !.seconds = s, !.milliseconds = ms,
                                          !.nanoseconds = ns,
                                          !.display = display(s, ms, ns)],
             measured |-> NoDuration, arr |-> NoRef]
  /\ probe' = NoProbe
  /\ UNCHANGED <<swName, clock, wall, timers, heap, started, held>>

NextDisplay ==
  \/ Tick
  \/ \E s \in DisplaySeconds, ms \in DisplayMilliseconds,
        ns \in DisplayNanoseconds : ShowDisplay(s, ms, ns)

SpecDisplay == Init /\ [][NextDisplay]_vars

\* The non-zero components, each followed by its unit, joined by one space.
SkippingZeros(s, ms, ns) ==
  Trim((IF s /= 0 THEN ToChars(s) \o <<"s", " ">> ELSE <<>>)
       \o (IF ms /= 0 THEN ToChars(ms) \o <<"m", "s", " ">> ELSE <<>>)
       \o (IF ns /= 0 THEN ToChars(ns) \o <<"n", "s">> ELSE <<>>))

\* C30 (as claimed): the display string is the concatenation of
\* '<seconds>s ', '<milliseconds>ms ' and '<nanoseconds>ns' with the
\* zero-valued components skipped, trimmed: 1, 0, 5 gives '1s 5ns' and all
\* zero gives the empty string.
C30_DisplaySkipsZeros ==
  ret.op = "display" =>
    ret.value.display
      = SkippingZeros(ret.value.seconds, ret.value.milliseconds,
                      ret.value.nanoseconds)

----------------------------------------------------------------------------
(* The queries next to the operations that change the registry *)

\* The arguments of parse() here: 0 and the README's 1s 749ms 23419ns.
QueryParseArgs == {0, NS_PER_SECOND + 749 * NS_PER_MILLISECOND + 23419}

\* stopwatch.name
ReadName ==
  /\ ret' = [op |-> "name", name |-> Null, status |-> "ok",
             value |-> NoDuration, measured |-> NoDuration, arr |-> NoRef,
             text |-> swName]
  /\ probe' = NoProbe
  /\ UNCHANGED <<swName, clock, wall, timers, heap, started, held>>

\* stopwatch.timers
ReadTimers ==
  /\ ret' = [op |-> "timers", name |-> Null, status |-> "ok",
             value |-> NoDuration, measured |-> NoDuration, arr |-> NoRef,
             list |-> Timers]
  /\ probe' = NoProbe
  /\ UNCHANGED <<swName, clock, wall, timers, heap, started, held>>

NextQueries ==
  \/ Tick
  \/ \E name \in NameArgs : Start(name)
  \/ \E name \in NameArgs : Remove(name)
  \/ \E label \in LabelArgs, name \in NameArgs : Measure(label, name)
  \/ \E name \in NameArgs : Stop(name)
  \/ \E name \in NameArgs : History(name)
  \/ \E label \in LabelArgs, name \in NameArgs : HistoryLabel(label, name)
  \/ \E int \in QueryParseArgs : Parse(int)
  \/ ReadName
  \/ ReadTimers

SpecQueries == Init /\ [][NextQueries]_vars

\* The calls and property reads that only ask.
QueryOps == {"history", "historyLabel", "parse", "name", "timers"}

\* C31: history, historyLabel, parse, timers and name leave the registry as
\* it is (no timer created or removed, no history changed, no base reset),
\* whatever name or label they are given; name is the constructor's argument,
\* or 'Unknown TrackTime' when none was given, and no step changes it.
C31_QueriesChangeNothing ==
  /\ swName \in {IF Truthy(a) THEN a ELSE UnknownTrackTime : a \in CtorArgs}
  /\ [][/\ swName' = swName
        /\ ret'.op \in QueryOps => UNCHANGED <<timers, heap, started>>
        /\ ret'.op = "name" => ret'.text = swName
        /\ ret'.op = "timers" => ret'.list = Timers]_vars

\* historyLabel was asked for a timer that does not exist: the timer still
\* does not exist, the default timer keeps its records and the stopwatch its
\* name.
C31_Witness ==
  /\ ret.op = "historyLabel" /\ Truthy(ret.name)
  /\ ~Has(Registry, ret.name)
  /\ HistoryOf(Registry, DefaultKey) /= <<>>
  /\ swName = <<"D">>

====
